---- MODULE Spec2Model ----
(***************************************************************************)
(* The model catalog selector of jetbot/utils: class model_selection of    *)
(* model_selection_v1.py, and beside it the older variant of the class     *)
(* kept in .ipynb_checkpoints/model_selection-checkpoint.py.               *)
(*                                                                         *)
(* A path is a sequence of one-character strings, so that split("/", 1)    *)
(* and os.path.join are computed and not assumed.  A trait assignment      *)
(* follows traitlets: an assignment of the value the trait already holds   *)
(* notifies nobody; any other assignment stores the value and then calls   *)
(* the registered observers in registration order.                         *)
(***************************************************************************)
EXTENDS Integers, Sequences, FiniteSets, TLC

\* csv:       the rows of the catalog file, as pd.read_csv will find them
\* phase:     "new" before model_selection() is called, "ready" once it has
\*            returned an instance, "failed" once it has raised
\* df:        self.df
\* ms:        the traits of the v1 instance, and the exception its last call raised
\* observers: the observers of the instance, in registration order
\* notified:  what the observers registered by callers were shown during the last call
\* last:      the last call made (op, its argument) and the traits before it
\* ck:        the checkpoint variant built from the same file and given the same calls
VARIABLES csv, phase, df, ms, observers, notified, last, ck

vars == <<csv, phase, df, ms, observers, notified, last, ck>>

\* Largest number of rows of a catalog file.
MaxRows == 2

\* "/workspace/model_repo", shortened to one directory of one letter.
MODEL_REPO_DIR_DOCKER == <<"/", "w">>

\* The values the three columns of a catalog file are drawn from.  The path
\* <<"m">> has no separator.
FunctionValues == {"object detection", "road following"}

TypeValues == {"SSD", "ResNet"}

RawPaths == {<<"r", "/", "a">>, <<"r", "/", "b">>, <<"m">>}

CsvRows == [model_function : FunctionValues, model_type : TypeValues, model_path : RawPaths]

CsvFiles == UNION {[1..n -> CsvRows] : n \in 0..MaxRows}

\* The values callers assign: every catalog value and one the catalog never holds.
FunctionInputs == FunctionValues \cup {"image classification"}

TypeInputs == TypeValues \cup {"YOLO"}

PathInputs == {<<>>, <<"/", "w", "/", "a">>}

\* Python's order of the strings a catalog column can hold (code point order).
LexOrder == <<"ResNet", "SSD", "object detection", "road following">>

Rank(s) == CHOOSE i \in 1..Len(LexOrder) : LexOrder[i] = s

\* The class attributes: the value of every trait of a fresh instance.
\* raised is the exception the running call has raised, "none" if none.
TraitDefaults ==
  [model_function |-> "object detection", model_function_list |-> <<>>,
   model_type |-> "SSD", model_type_list |-> <<>>,
   model_path |-> <<>>, model_path_list |-> <<>>,
   raised |-> "none"]

----------------------------------------------------------------------------
\* str.split("/", 1): the parts of p around its first separator.
split_1(p) ==
  IF \E i \in 1..Len(p) : p[i] = "/"
  THEN LET k == CHOOSE i \in 1..Len(p) : p[i] = "/" /\ \A j \in 1..(i - 1) : p[j] # "/"
       IN <<SubSeq(p, 1, k - 1), SubSeq(p, k + 1, Len(p))>>
  ELSE <<p>>

\* os.path.join(a, b) on POSIX.
path_join(a, b) ==
  IF b # <<>> /\ b[1] = "/" THEN b
  ELSE IF a = <<>> \/ a[Len(a)] = "/" THEN a \o b
  ELSE a \o <<"/">> \o b

\* The loop with split("/", 1)[-1] in place of split("/", 1)[1]: no row raises.
rewrite_paths_last_part(rows, k, dir_model_repo) ==
  [df |-> [j \in 1..Len(rows) |->
             IF j < k THEN rows[j]
             ELSE [rows[j] EXCEPT !.model_path =
                     path_join(dir_model_repo, split_1(@)[Len(split_1(@))])]],
   raised |-> "none"]

\* The loop of __init__ over df.values, rows 1..n still to come from row k:
\* it stops at the first row whose split has no element [1] (IndexError).
RECURSIVE rewrite_paths(_, _, _)
rewrite_paths(rows, k, dir_model_repo) ==
  IF k > Len(rows) THEN [df |-> rows, raised |-> "none"]
  ELSE LET parts == split_1(rows[k].model_path)
       IN IF Len(parts) < 2 THEN [df |-> rows, raised |-> "IndexError"]
          ELSE rewrite_paths(
                 [rows EXCEPT ![k].model_path = path_join(dir_model_repo, parts[2])],
                 k + 1, dir_model_repo)

\* list(series.astype("category").cat.categories): the distinct values, sorted.
RECURSIVE categories(_)
categories(S) ==
  IF S = {} THEN <<>>
  ELSE LET m == CHOOSE x \in S : \A y \in S : Rank(x) <= Rank(y)
       IN <<m>> \o categories(S \ {m})

\* df[df.<column> == value], as the row numbers kept, in order.
RECURSIVE filter_rows(_, _, _, _)
filter_rows(rows, idx, column, value) ==
  IF idx = <<>> THEN <<>>
  ELSE (IF rows[Head(idx)][column] = value THEN <<Head(idx)>> ELSE <<>>)
       \o filter_rows(rows, Tail(idx), column, value)

all_rows(rows) == [i \in 1..Len(rows) |-> i]

\* mt.loc[:, ['model_path']].values: an array of shape (n, 1).
path_column(rows, idx) == [i \in 1..Len(idx) |-> <<rows[idx[i]].model_path>>]

\* mpl[:, 0].tolist(): always a list, one element per row.
column_0_tolist(mpl) == [kind |-> "list", val |-> [i \in 1..Len(mpl) |-> mpl[i][1]]]

\* np.squeeze(mpl).tolist(): shape (1, 1) squeezes to a 0-d array, whose
\* tolist() is the element itself and not a list.
squeeze_tolist(mpl) ==
  IF Len(mpl) = 1 THEN [kind |-> "str", val |-> mpl[1][1]]
  ELSE [kind |-> "list", val |-> [i \in 1..Len(mpl) |-> mpl[i][1]]]

\* Assignment to a List trait: a value that is no list raises TraitError and
\* leaves the trait as it was.
set_list_trait(self, name, value) ==
  IF value.kind = "list" THEN [self EXCEPT ![name] = value.val]
  ELSE [self EXCEPT !.raised = "TraitError"]

----------------------------------------------------------------------------
\* model_selection_v1.py

update_model_type_list_unfiltered(rows, self) ==
  set_list_trait(self, "model_type_list",
    [kind |-> "list", val |-> categories({rows[i].model_type : i \in 1..Len(rows)})])

update_model_type_list(rows, self) ==
  LET mf == filter_rows(rows, all_rows(rows), "model_function", self.model_function)
  IN set_list_trait(self, "model_type_list",
       [kind |-> "list", val |-> categories({rows[mf[i]].model_type : i \in 1..Len(mf)})])

update_model_list_type_only(rows, self) ==
  LET mt == filter_rows(rows, all_rows(rows), "model_type", self.model_type)
  IN set_list_trait(self, "model_path_list", column_0_tolist(path_column(rows, mt)))

update_model_list(rows, self) ==
  LET mf == filter_rows(rows, all_rows(rows), "model_function", self.model_function)
      mt == filter_rows(rows, mf, "model_type", self.model_type)
  IN set_list_trait(self, "model_path_list", column_0_tolist(path_column(rows, mt)))

\* The three ifs of update_model, one operator each; an exception raised by
\* one of them ends the call.
if_model_function(rows, self, change) ==
  IF self.raised = "none" /\ change.name = "model_function"
  THEN update_model_type_list(rows, [self EXCEPT !.model_function = change.new])
  ELSE self

if_model_type(rows, self, change) ==
  IF self.raised = "none" /\ change.name = "model_type"
  THEN update_model_list(rows, [self EXCEPT !.model_type = change.new])
  ELSE self

if_model_path(rows, self, change) ==
  IF self.raised = "none" /\ change.name = "model_path"
  THEN [self EXCEPT !.model_path = change.new]
  ELSE self

\* update_model with a first if that also moves model_type to the first
\* type of the new list.
reselect_type(self, change) ==
  IF change.name = "model_function" /\ self.model_type_list # <<>>
  THEN [self EXCEPT !.model_type = self.model_type_list[1]] ELSE self

update_model_reselect_type(rows, self, change) ==
  if_model_path(rows,
    if_model_type(rows, reselect_type(if_model_function(rows, self, change), change), change),
    change)

\* update_model with a first if that does not call update_model_type_list.
update_model_no_type_list(rows, self, change) ==
  if_model_path(rows,
    if_model_type(rows,
      IF change.name = "model_function"
      THEN [self EXCEPT !.model_function = change.new] ELSE self,
      change),
    change)

\* update_model with a third if that also calls update_model_list.
refresh_on_path(rows, self, change) ==
  IF self.raised = "none" /\ change.name = "model_path"
  THEN update_model_list(rows, self) ELSE self

update_model_refresh_on_path(rows, self, change) ==
  refresh_on_path(rows,
    if_model_path(rows,
      if_model_type(rows, if_model_function(rows, self, change), change), change),
    change)

update_model(rows, self, change) ==
  if_model_path(rows,
    if_model_type(rows, if_model_function(rows, self, change), change),
    change)

update_model_list_unless_raised(rows, self) ==
  IF self.raised = "none" THEN update_model_list(rows, self) ELSE self

\* model_function_list of line 81 on fresh traits.
with_function_list(d) ==
  [TraitDefaults EXCEPT !.model_function_list =
     categories({d[i].model_function : i \in 1..Len(d)})]

in_list(list, x) == \E i \in 1..Len(list) : list[i] = x

\* Lines 81-85 with a first option taken whenever the default of
\* model_function, then of model_type, is not among the options.
pick_function(self) ==
  IF ~in_list(self.model_function_list, self.model_function)
  THEN [self EXCEPT !.model_function = self.model_function_list[1]] ELSE self

pick_type(self) ==
  IF self.model_type_list # <<>> /\ ~in_list(self.model_type_list, self.model_type)
  THEN [self EXCEPT !.model_type = self.model_type_list[1]] ELSE self

init_traits_fallback(d) ==
  update_model_list_unless_raised(d,
    pick_type(update_model_type_list(d, pick_function(with_function_list(d)))))

\* Lines 81-85 followed by model_path set to the first path of the list.
pick_path(self) ==
  IF self.model_path_list # <<>>
  THEN [self EXCEPT !.model_path = self.model_path_list[1]] ELSE self

init_traits_first_path(d) ==
  pick_path(
    update_model_list_unless_raised(d, update_model_type_list(d, with_function_list(d))))

\* Lines 81-85 of __init__ on the rewritten table d.
init_traits(d) ==
  update_model_list_unless_raised(d, update_model_type_list(d, with_function_list(d)))

failed_init(rows, e) ==
  [phase |-> "failed", df |-> rows, observers |-> <<>>,
   self |-> [TraitDefaults EXCEPT !.raised = e]]

\* Line 88: the instance with update_model as its first observer, unless
\* a step of __init__ raised.
finish_init(d, self) ==
  IF self.raised # "none" THEN failed_init(d, self.raised)
  ELSE [phase |-> "ready", df |-> d, observers |-> <<"update_model">>, self |-> self]

after_rewrite(rw) ==
  IF rw.raised # "none" THEN failed_init(rw.df, rw.raised)
  ELSE finish_init(rw.df, init_traits(rw.df))

\* __init__ from the rows pd.read_csv found in the file (no row at all:
\* EmptyDataError).
model_selection_init(rows, dir_model_repo) ==
  IF rows = <<>> THEN failed_init(rows, "EmptyDataError")
  ELSE after_rewrite(rewrite_paths(rows, 1, dir_model_repo))

\* What an observer registered by a caller sees when it is called.
snapshot(self, change) == [name |-> change.name, new |-> change.new, self |-> self]

\* traitlets' notify_change: the observers in registration order; an
\* exception raised by one of them ends the notification.
RECURSIVE notify_change(_, _, _, _)
notify_change(rows, acc, change, cbs) ==
  IF cbs = <<>> \/ acc.self.raised # "none" THEN acc
  ELSE notify_change(rows,
         IF Head(cbs) = "update_model"
         THEN [acc EXCEPT !.self = update_model(rows, acc.self, change)]
         ELSE [acc EXCEPT !.seen = Append(@, snapshot(acc.self, change))],
         change, Tail(cbs))

\* ms.<name> = value, by a caller: nothing happens when the trait holds the
\* value already; otherwise the value is stored and the observers are called.
\* The call starts with no exception raised.
store_and_notify(rows, self, cbs, name, value) ==
  IF self[name] = value THEN [self |-> self, seen |-> <<>>]
  ELSE notify_change(rows, [self |-> [self EXCEPT ![name] = value], seen |-> <<>>],
                     [name |-> name, old |-> self[name], new |-> value], cbs)

set_trait(rows, self, cbs, name, value) ==
  store_and_notify(rows, [self EXCEPT !.raised = "none"], cbs, name, value)

----------------------------------------------------------------------------
\* .ipynb_checkpoints/model_selection-checkpoint.py

update_model_list_checkpoint(rows, self) ==
  LET mf == filter_rows(rows, all_rows(rows), "model_function", self.model_function)
      mt == filter_rows(rows, mf, "model_type", self.model_type)
  IN set_list_trait(self, "model_path_list", squeeze_tolist(path_column(rows, mt)))

if_model_type_checkpoint(rows, self, change) ==
  IF self.raised = "none" /\ change.name = "model_type"
  THEN update_model_list_checkpoint(rows, [self EXCEPT !.model_type = change.new])
  ELSE self

update_model_checkpoint(rows, self, change) ==
  if_model_path(rows,
    if_model_type_checkpoint(rows, if_model_function(rows, self, change), change),
    change)

update_model_list_checkpoint_unless_raised(rows, self) ==
  IF self.raised = "none" THEN update_model_list_checkpoint(rows, self) ELSE self

init_traits_checkpoint(d) ==
  update_model_list_checkpoint_unless_raised(d,
    update_model_type_list(d,
      with_function_list(d)))

finish_init_checkpoint(self) ==
  IF self.raised # "none"
  THEN [phase |-> "failed", self |-> [TraitDefaults EXCEPT !.raised = self.raised]]
  ELSE [phase |-> "ready", self |-> self]

after_rewrite_checkpoint(rw) ==
  IF rw.raised # "none"
  THEN [phase |-> "failed", self |-> [TraitDefaults EXCEPT !.raised = rw.raised]]
  ELSE finish_init_checkpoint(init_traits_checkpoint(rw.df))

model_selection_checkpoint_init(rows) ==
  IF rows = <<>>
  THEN [phase |-> "failed", self |-> [TraitDefaults EXCEPT !.raised = "EmptyDataError"]]
  ELSE after_rewrite_checkpoint(rewrite_paths(rows, 1, MODEL_REPO_DIR_DOCKER))

\* An assignment on the checkpoint instance, whose only observer is its own
\* update_model; no instance, no assignment.
store_and_notify_checkpoint(rows, self, name, value) ==
  IF self[name] = value THEN self
  ELSE update_model_checkpoint(rows, [self EXCEPT ![name] = value],
         [name |-> name, old |-> self[name], new |-> value])

set_trait_checkpoint(rows, c, name, value) ==
  IF c.phase # "ready" THEN c
  ELSE [c EXCEPT !.self =
          store_and_notify_checkpoint(rows, [c.self EXCEPT !.raised = "none"], name, value)]

----------------------------------------------------------------------------
\* The state: a catalog file, and no instance of either class yet.
Init ==
  /\ csv \in CsvFiles
  /\ phase = "new"
  /\ df = <<>>
  /\ ms = TraitDefaults
  /\ observers = <<>>
  /\ notified = <<>>
  /\ last = [op |-> "none", arg |-> <<>>, before |-> TraitDefaults]
  /\ ck = [phase |-> "new", self |-> TraitDefaults]

\* model_selection(): both variants are constructed from the same file.
Construct ==
  /\ phase = "new"
  /\ LET r == model_selection_init(csv, MODEL_REPO_DIR_DOCKER)
     IN /\ phase' = r.phase
        /\ df' = r.df
        /\ ms' = r.self
        /\ observers' = r.observers
  /\ ck' = model_selection_checkpoint_init(csv)
  /\ last' = [op |-> "init", arg |-> <<>>, before |-> ms]
  /\ UNCHANGED <<csv, notified>>

\* A caller registers an observer of its own on the constructed selector.
Observe ==
  /\ phase = "ready"
  /\ Len(observers) = 1
  /\ observers' = Append(observers, "caller")
  /\ UNCHANGED <<csv, phase, df, ms, notified, last, ck>>

\* The state after the assignment ms.<name> = value by a caller.
Assigned(op, name, value) ==
  /\ ms' = set_trait(df, ms, observers, name, value).self
  /\ notified' = set_trait(df, ms, observers, name, value).seen
  /\ ck' = set_trait_checkpoint(df, ck, name, value)
  /\ last' = [op |-> op, arg |-> value, before |-> ms]
  /\ UNCHANGED <<csv, phase, df, observers>>

set_function ==
  /\ phase = "ready"
  /\ \E v \in FunctionInputs : Assigned("set_function", "model_function", v)

set_type ==
  /\ phase = "ready"
  /\ \E v \in TypeInputs : Assigned("set_type", "model_type", v)

set_path ==
  /\ phase = "ready"
  /\ \E v \in PathInputs : Assigned("set_path", "model_path", v)

Next == Construct \/ Observe \/ set_function \/ set_type \/ set_path

Spec == Init /\ [][Next]_vars

----------------------------------------------------------------------------
\* What the claims compare the selector with, computed from the table alone.

HasSeparator(p) == \E i \in 1..Len(p) : p[i] = "/"

TypesOf(f) == {df[i].model_type : i \in {j \in 1..Len(df) : df[j].model_function = f}}

MatchingRows(f, t) ==
  {i \in 1..Len(df) : df[i].model_function = f /\ df[i].model_type = t}

PathsOf(f, t) ==
  LET sel == SelectSeq(df, LAMBDA r : r.model_function = f /\ r.model_type = t)
  IN [i \in 1..Len(sel) |-> sel[i].model_path]

\* list holds every element of S once and nothing else.
ListsExactly(list, S) ==
  /\ {list[i] : i \in 1..Len(list)} = S
  /\ Len(list) = Cardinality(S)

Setters == {"set_function", "set_type", "set_path"}

AfterConstruction == phase = "ready" /\ last.op = "init"

\* C1: right after a set_function(f), whatever calls came before it,
\* model_type_list holds exactly the distinct types of the rows whose
\* function is f: also when f was the function already, and when no row has
\* function f (the list is then empty).
CascadeConsistency ==
  last.op = "set_function" =>
    /\ ListsExactly(ms.model_type_list, TypesOf(last.arg))
    /\ (TypesOf(last.arg) = {} => ms.model_type_list = <<>>)

CascadeConsistencyWitness ==
  /\ last.op = "set_function"
  /\ last.arg # last.before.model_function
  /\ ms.model_type_list # <<>>
  /\ ms.model_type_list # last.before.model_type_list

\* C2: in every state of a constructed selector, model_path_list is the
\* paths of exactly the rows whose function is the current model_function
\* and whose type is the current model_type.
PathOptionsNeverStale ==
  phase = "ready" => ms.model_path_list = PathsOf(ms.model_function, ms.model_type)

\* C3: right after a set_type(t) that changes model_type, model_path_list is
\* the paths of the rows with the current function and type t, in table
\* order and with one element per matching row.
SetTypeListsEveryPath ==
  (last.op = "set_type" /\ last.arg # last.before.model_type) =>
    /\ ms.model_function = last.before.model_function
    /\ ms.model_path_list = PathsOf(ms.model_function, last.arg)
    /\ Len(ms.model_path_list) = Cardinality(MatchingRows(ms.model_function, last.arg))

SetTypeListsEveryPathWitness ==
  /\ last.op = "set_type"
  /\ last.arg # last.before.model_type
  /\ Len(ms.model_path_list) = 2
  /\ ms.model_path_list[1] # ms.model_path_list[2]
  /\ last.before.model_path_list = <<>>

\* C4: a set_path(p) changes model_path and nothing else: every other trait
\* is as it was before the call, also a model_path_list that is out of date,
\* and the table is the one construction loaded.
LeafIndependence ==
  last.op = "set_path" =>
    /\ ms = [last.before EXCEPT !.model_path = last.arg]
    /\ Len(df) = Len(csv)
    /\ \A i \in 1..Len(df) :
         /\ df[i].model_function = csv[i].model_function
         /\ df[i].model_type = csv[i].model_type

LeafIndependenceWitness ==
  /\ last.op = "set_path"
  /\ last.arg # last.before.model_path
  /\ last.before.model_path_list # PathsOf(ms.model_function, ms.model_type)

\* C5: a set_function(v) raises nothing for any v, leaves model_function = v
\* and leaves model_type, model_path and model_function_list as they were.
SetFunctionPermissive ==
  last.op = "set_function" =>
    /\ ms.raised = "none"
    /\ ms.model_function = last.arg
    /\ ms.model_type = last.before.model_type
    /\ ms.model_path = last.before.model_path
    /\ ms.model_function_list = last.before.model_function_list

SetFunctionPermissiveWitness ==
  /\ last.op = "set_function"
  /\ ~in_list(ms.model_function_list, last.arg)
  /\ last.before.model_type_list # <<>>
  /\ ms.model_type_list = <<>>
  /\ ms.raised = "none"

\* C6 as stated: right after construction model_function is "object
\* detection" if that is among model_function_list and the first element of
\* the list otherwise, and model_type is "SSD" if that is among
\* model_type_list and the first element of that list otherwise.
ConstructionPicksSelectable ==
  AfterConstruction =>
    /\ ms.model_function =
         IF in_list(ms.model_function_list, "object detection")
         THEN "object detection" ELSE ms.model_function_list[1]
    /\ ListsExactly(ms.model_type_list, TypesOf(ms.model_function))
    /\ ms.model_type_list # <<>>
    /\ ms.model_type =
         IF in_list(ms.model_type_list, "SSD") THEN "SSD" ELSE ms.model_type_list[1]

\* C6 amended: right after construction model_function is "object
\* detection" and model_type is "SSD" whatever the table holds, and
\* model_type_list holds the distinct types of the rows whose function is
\* "object detection" (none when the table has no such row).
ConstructionKeepsDefaults ==
  AfterConstruction =>
    /\ ms.model_function = "object detection"
    /\ ms.model_type = "SSD"
    /\ ListsExactly(ms.model_function_list, {df[i].model_function : i \in 1..Len(df)})
    /\ ListsExactly(ms.model_type_list, TypesOf("object detection"))

ConstructionKeepsDefaultsWitness ==
  /\ AfterConstruction
  /\ ~in_list(ms.model_function_list, "object detection")
  /\ ms.model_function_list # <<>>
  /\ ms.model_type_list = <<>>

\* C7 as stated: right after construction model_path is the first element of
\* model_path_list when the list is not empty, and is empty only when the
\* list is empty.
ConstructionPicksFirstPath ==
  AfterConstruction =>
    /\ (ms.model_path_list # <<>> => ms.model_path = ms.model_path_list[1])
    /\ (ms.model_path = <<>> => ms.model_path_list = <<>>)

\* C7 amended: right after construction model_path is the empty string,
\* whether model_path_list is empty or not.
ConstructionLeavesPathEmpty ==
  AfterConstruction => ms.model_path = <<>>

ConstructionLeavesPathEmptyWitness ==
  /\ AfterConstruction
  /\ ms.model_path_list # <<>>
  /\ ms.model_path_list = PathsOf("object detection", "SSD")

\* C8: a table with a row whose path has no separator never yields a
\* selector: construction ends with the exception of the rewriting step
\* (IndexError, the load error of the row) and no setter is ever called;
\* a table whose rows all have a separator never raises in that step.
MalformedRowFailsConstruction ==
  /\ (\E i \in 1..Len(csv) : ~HasSeparator(csv[i].model_path)) =>
       /\ phase # "ready"
       /\ last.op \notin Setters
       /\ (phase = "failed" => ms.raised = "IndexError")
  /\ (\A i \in 1..Len(csv) : HasSeparator(csv[i].model_path)) =>
       ms.raised # "IndexError"

MalformedRowFailsConstructionWitness ==
  /\ phase = "failed"
  /\ ms.raised = "IndexError"
  /\ Len(csv) = 2
  /\ HasSeparator(csv[1].model_path)
  /\ df[1].model_path # csv[1].model_path

\* C9: an observer a caller registered after construction is called after
\* the selector's own update_model: when it is told of a new model_function
\* it reads the model_type_list of that function, and when it is told of a
\* new model_type it reads the model_path_list of that type.
ObserversSeeRecomputed ==
  /\ phase = "ready" => observers[1] = "update_model"
  /\ \A i \in 1..Len(notified) :
       /\ notified[i].name = "model_function" =>
            /\ notified[i].self.model_function = notified[i].new
            /\ ListsExactly(notified[i].self.model_type_list, TypesOf(notified[i].new))
       /\ notified[i].name = "model_type" =>
            /\ notified[i].self.model_type = notified[i].new
            /\ notified[i].self.model_path_list =
                 PathsOf(notified[i].self.model_function, notified[i].new)

ObserversSeeRecomputedWitness ==
  /\ Len(observers) = 2
  /\ Len(notified) = 1
  /\ notified[1].name = "model_function"
  /\ notified[1].self.model_type_list # last.before.model_type_list
  /\ notified[1].self.model_type_list # <<>>

\* C10: the two variants of the class agree: whenever the v1 selector is
\* constructed so is the checkpoint one, no call on it has raised, and its
\* model_path_list is the list the v1 selector holds.
VariantsAgree ==
  phase = "ready" =>
    /\ ck.phase = "ready"
    /\ ck.self.raised = "none"
    /\ ck.self.model_path_list = ms.model_path_list

====
